---- MODULE Spec2Model ----
(***************************************************************************)
(* EarlyAllocator<PAGE_SIZE> of arceos/modules/bump_allocator: a double-   *)
(* ended bump allocator.  Bytes are allocated forward from start, pages    *)
(* backward from end.                                                      *)
(*                                                                         *)
(* usize is modelled as an unsigned word of WordBits bits.  Rust's `+`,    *)
(* `-` and `*` on usize panic on overflow when the crate is built with     *)
(* overflow checks (the dev profile) and wrap when it is built without     *)
(* them (the release profile); the build is the variable overflow_checks,  *)
(* fixed for a whole behaviour.  A panic, an abort through                 *)
(* handle_alloc_error and unimplemented!() stop the program (mode =        *)
(* "halted").                                                              *)
(***************************************************************************)
EXTENDS Integers, Sequences, FiniteSets, TLC

\* ------------------------------------------------------------- bounds
\* Width of usize in the model.
WordBits == 16
\* Largest ordinary page count a caller asks for.
MaxPages == 3
\* Cap on the byte allocations explored between two resets of the byte region.
MaxAllocs == 2
\* Cap on how many deallocs beyond the successful allocs are explored.
MaxUnderflow == 1
\* Cap on the number of successful page allocations recorded per init.
MaxPageAllocs == 2

\* ----------------------------------------------------- program constants
\* The const generic PAGE_SIZE (a power of two; 0x1000 in the kernel).
PAGE_SIZE == 4096

Word == 2 ^ WordBits
USIZE_MAX == Word - 1

\* --------------------------------------------------------------- inputs
\* init's <<start, size>>: memory regions that lie in the address space.
Regions ==
    {<<0, 2 * PAGE_SIZE>>, <<PAGE_SIZE, 2 * PAGE_SIZE>>,
     <<PAGE_SIZE, 3 * PAGE_SIZE + 16>>}
\* Layout's <<size, align>>: align is a power of two.
Layouts == {<<1, 1>>, <<PAGE_SIZE, 8>>}
\* alloc_pages' <<num_pages, align_pow2>>.  Word \div PAGE_SIZE pages are as
\* many bytes as the address space holds.
PageRequests ==
    {<<n, PAGE_SIZE>> : n \in (0 .. MaxPages) \cup {Word \div PAGE_SIZE}}
        \cup {<<1, 1>>, <<MaxPages, 8>>, <<1, 2 * PAGE_SIZE>>}
\* ---------------------------------------------------------------- state
VARIABLES
    start, end, count, byte_pos, page_pos,  \* the fields of EarlyAllocator
    overflow_checks,  \* the build: TRUE panics on usize overflow, FALSE wraps
    mode,             \* "uninit" (after new()), "ready", "halted"
    last,             \* the last call: op, arguments, result, ledger and epoch before it
    pages,            \* history: <<addr, num_pages>> of each Ok alloc_pages since init
    bytes,            \* history: <<addr, size>> of each Ok alloc since init or the last bulk free
    live,             \* history: alloc calls that returned Ok minus dealloc calls that returned
    epoch             \* history: "fresh" after init, "used" after an alloc, "reset" after a bulk free

vars ==
    <<start, end, count, byte_pos, page_pos, overflow_checks, mode, last,
      pages, bytes, live, epoch>>

\* The ledger as one value.
self ==
    [start |-> start, end |-> end, count |-> count,
     byte_pos |-> byte_pos, page_pos |-> page_pos]

\* ------------------------------------------------------- usize arithmetic
wrapping_add(a, b) == (a + b) % Word
wrapping_sub(a, b) == (a + Word - b) % Word
wrapping_mul(a, b) == (a * b) % Word
add_overflows(a, b) == a + b > USIZE_MAX
sub_overflows(a, b) == b > a
mul_overflows(a, b) == a * b > USIZE_MAX

\* Bitwise `&` on the low n bits.
RECURSIVE BitAnd(_, _, _)
BitAnd(x, y, n) ==
    IF n = 0 THEN 0
    ELSE (x % 2) * (y % 2) + 2 * BitAnd(x \div 2, y \div 2, n - 1)

\* Bitwise `!` on a usize.
BitNot(x) == USIZE_MAX - x

\* (val + align - 1) & !(align - 1), as the build without overflow checks
\* computes it.
align_up(val, align) ==
    BitAnd(wrapping_sub(wrapping_add(val, align), 1),
           BitNot(wrapping_sub(align, 1)), WordBits)

\* Whether align_up's arithmetic overflows (val + align; align >= 1).
align_up_overflows(val, align) ==
    add_overflows(val, align) \/ sub_overflows(wrapping_add(val, align), 1)

\* align_down that does not round.
align_down_identity(val, align) == val

\* (val) & !(align - 1)
align_down(val, align) == BitAnd(val, BitNot(wrapping_sub(align, 1)), WordBits)

\* -------------------------------------------------------------- results
Ok(v) == [tag |-> "Ok", val |-> v]
Unit == [tag |-> "Unit", val |-> 0]
NoMemory == [tag |-> "NoMemory", val |-> 0]
PanicOverflow == [tag |-> "PanicOverflow", val |-> 0]
PanicAssert == [tag |-> "PanicAssert", val |-> 0]
Unimplemented == [tag |-> "Unimplemented", val |-> 0]
AllocErrorAbort == [tag |-> "AllocErrorAbort", val |-> 0]

\* The results after which the program does not run on.
Fatal(r) ==
    r.tag \in {"PanicOverflow", "PanicAssert", "Unimplemented", "AllocErrorAbort"}

\* ------------------------------------------------------------- handlers
\* Each handler maps the ledger s and its arguments to the ledger after the
\* call and the call's result.

new ==
    [start |-> 0, end |-> 0, count |-> 0, byte_pos |-> 0, page_pos |-> 0]

\* init without `self.count = 0`.
init_keeps_count(s, st, size) ==
    IF overflow_checks /\ add_overflows(st, size)
    THEN [self |-> [s EXCEPT !.start = st], result |-> PanicOverflow]
    ELSE [self |-> [start |-> st,
                    end |-> wrapping_add(st, size),
                    count |-> s.count,
                    byte_pos |-> st,
                    page_pos |-> wrapping_add(st, size)],
          result |-> Unit]

init(s, st, size) ==
    IF overflow_checks /\ add_overflows(st, size)
    THEN [self |-> [s EXCEPT !.start = st], result |-> PanicOverflow]
    ELSE [self |-> [start |-> st,
                    end |-> wrapping_add(st, size),
                    count |-> 0,
                    byte_pos |-> st,
                    page_pos |-> wrapping_add(st, size)],
          result |-> Unit]

add_memory(s, st, size) == [self |-> s, result |-> Unimplemented]

alloc(s, size, align) ==
    LET astart == align_up(s.byte_pos, align)
        next == wrapping_add(astart, size)
    IN  IF overflow_checks
           /\ (align_up_overflows(s.byte_pos, align) \/ add_overflows(astart, size))
        THEN [self |-> s, result |-> PanicOverflow]
        ELSE IF next > s.page_pos
        THEN [self |-> s, result |-> AllocErrorAbort]
        ELSE IF overflow_checks /\ add_overflows(s.count, 1)
        THEN [self |-> [s EXCEPT !.byte_pos = next], result |-> PanicOverflow]
        ELSE [self |-> [s EXCEPT !.byte_pos = next,
                                 !.count = wrapping_add(s.count, 1)],
              \* NonNull::new(start as *mut u8).ok_or(AllocError::NoMemory)
              result |-> IF astart = 0 THEN NoMemory ELSE Ok(astart)]

\* dealloc without the reset of byte_pos when count reaches 0.
dealloc_keeps_cursor(s, pos, size) ==
    IF overflow_checks /\ sub_overflows(s.count, 1)
    THEN [self |-> s, result |-> PanicOverflow]
    ELSE [self |-> [s EXCEPT !.count = wrapping_sub(s.count, 1)], result |-> Unit]

\* dealloc that resets byte_pos on every call, outstanding allocations or not.
dealloc_always_resets(s, pos, size) ==
    IF overflow_checks /\ sub_overflows(s.count, 1)
    THEN [self |-> s, result |-> PanicOverflow]
    ELSE [self |-> [s EXCEPT !.count = wrapping_sub(s.count, 1),
                             !.byte_pos = s.start],
          result |-> Unit]

\* dealloc that takes the freed block back when it is the last one allocated.
dealloc_frees_last_block(s, pos, size) ==
    IF overflow_checks /\ sub_overflows(s.count, 1)
    THEN [self |-> s, result |-> PanicOverflow]
    ELSE LET c == wrapping_sub(s.count, 1)
         IN  [self |-> [s EXCEPT !.count = c,
                                 !.byte_pos = IF c = 0 THEN s.start
                                              ELSE IF pos + size = @ THEN pos
                                              ELSE @],
              result |-> Unit]

\* _pos and _layout are not read.
dealloc(s, pos, size) ==
    IF overflow_checks /\ sub_overflows(s.count, 1)
    THEN [self |-> s, result |-> PanicOverflow]
    ELSE LET c == wrapping_sub(s.count, 1)
         IN  [self |-> [s EXCEPT !.count = c,
                                 !.byte_pos = IF c = 0 THEN s.start ELSE @],
              result |-> Unit]

\* alloc_pages without the assert_eq! on align_pow2.
alloc_pages_no_assert(s, num_pages, align_pow2) ==
    IF overflow_checks
       /\ (mul_overflows(num_pages, PAGE_SIZE)
           \/ sub_overflows(s.page_pos, wrapping_mul(num_pages, PAGE_SIZE)))
    THEN [self |-> s, result |-> PanicOverflow]
    ELSE LET next ==
                 align_down(wrapping_sub(s.page_pos,
                                         wrapping_mul(num_pages, PAGE_SIZE)),
                            PAGE_SIZE)
         IN  IF next <= s.byte_pos
             THEN [self |-> s, result |-> NoMemory]
             ELSE [self |-> [s EXCEPT !.page_pos = next], result |-> Ok(next)]

alloc_pages(s, num_pages, align_pow2) ==
    IF align_pow2 % PAGE_SIZE # 0
    THEN [self |-> s, result |-> PanicAssert]
    ELSE IF overflow_checks
            /\ (mul_overflows(num_pages, PAGE_SIZE)
                \/ sub_overflows(s.page_pos, wrapping_mul(num_pages, PAGE_SIZE)))
    THEN [self |-> s, result |-> PanicOverflow]
    ELSE LET next ==
                 align_down(wrapping_sub(s.page_pos,
                                         wrapping_mul(num_pages, PAGE_SIZE)),
                            PAGE_SIZE)
         IN  IF next <= s.byte_pos
             THEN [self |-> s, result |-> NoMemory]
             ELSE [self |-> [s EXCEPT !.page_pos = next], result |-> Ok(next)]

\* dealloc_pages that gives the pages at page_pos back.
dealloc_pages_reclaims(s, pos, num_pages) ==
    IF pos = s.page_pos
    THEN [self |-> [s EXCEPT !.page_pos = wrapping_add(pos, wrapping_mul(num_pages, PAGE_SIZE))],
          result |-> Unit]
    ELSE [self |-> s, result |-> Unimplemented]

dealloc_pages(s, pos, num_pages) == [self |-> s, result |-> Unimplemented]

\* a - b as a query computes it.
QuerySub(a, b) ==
    IF overflow_checks /\ sub_overflows(a, b) THEN PanicOverflow
    ELSE Ok(wrapping_sub(a, b))

\* a query's byte count turned into pages.
QueryDiv(r) == IF r.tag = "Ok" THEN Ok(r.val \div PAGE_SIZE) ELSE r

total_bytes(s) == QuerySub(s.end, s.start)
used_bytes(s) == QuerySub(s.byte_pos, s.start)
available_bytes(s) == QuerySub(s.page_pos, s.byte_pos)
total_pages(s) == QueryDiv(QuerySub(s.end, s.start))
used_pages(s) == QueryDiv(QuerySub(s.end, s.page_pos))
available_pages(s) == QueryDiv(QuerySub(s.page_pos, s.byte_pos))

Queries ==
    {"total_bytes", "used_bytes", "available_bytes",
     "total_pages", "used_pages", "available_pages"}

\* The six queries take &self: the ledger is handed back as it was.
query(s, q) ==
    [self |-> s,
     result |->
        CASE q = "total_bytes" -> total_bytes(s)
          [] q = "used_bytes" -> used_bytes(s)
          [] q = "available_bytes" -> available_bytes(s)
          [] q = "total_pages" -> total_pages(s)
          [] q = "used_pages" -> used_pages(s)
          [] q = "available_pages" -> available_pages(s)]

\* -------------------------------------------------------------- actions
\* The call `op` with arguments a1, a2 took the ledger to out.self and
\* returned out.result.
Commit(op, a1, a2, out) ==
    /\ start' = out.self.start
    /\ end' = out.self.end
    /\ count' = out.self.count
    /\ byte_pos' = out.self.byte_pos
    /\ page_pos' = out.self.page_pos
    /\ last' = [op |-> op, a1 |-> a1, a2 |-> a2, result |-> out.result,
                pre |-> self, pre_epoch |-> epoch]
    /\ mode' = IF Fatal(out.result) THEN "halted" ELSE "ready"
    /\ UNCHANGED overflow_checks

Init ==
    /\ start = new.start
    /\ end = new.end
    /\ count = new.count
    /\ byte_pos = new.byte_pos
    /\ page_pos = new.page_pos
    /\ overflow_checks \in BOOLEAN
    /\ mode = "uninit"
    /\ last = [op |-> "new", a1 |-> 0, a2 |-> 0, result |-> Unit,
               pre |-> new, pre_epoch |-> "fresh"]
    /\ pages = <<>>
    /\ bytes = <<>>
    /\ live = 0
    /\ epoch = "fresh"

\* init(start, size) on a memory region that lies in the address space.
InitCall ==
    \E r \in Regions :
        /\ mode # "halted"
        /\ Commit("init", r[1], r[2], init(self, r[1], r[2]))
        /\ pages' = <<>>
        /\ bytes' = <<>>
        /\ live' = 0
        /\ epoch' = "fresh"

AddMemory ==
    \E st \in {end}, size \in {0, PAGE_SIZE} :
        /\ mode = "ready"
        /\ Commit("add_memory", st, size, add_memory(self, st, size))
        /\ UNCHANGED <<pages, bytes, live, epoch>>

Alloc ==
    \E layout \in Layouts :
        /\ mode = "ready"
        /\ Len(bytes) < MaxAllocs
        /\ count < MaxAllocs \/ count > USIZE_MAX - MaxUnderflow
        /\ LET out == alloc(self, layout[1], layout[2])
           IN  /\ Commit("alloc", layout[1], layout[2], out)
               /\ bytes' = IF out.result.tag = "Ok"
                           THEN Append(bytes, <<out.result.val, layout[1]>>)
                           ELSE bytes
               /\ live' = IF out.result.tag = "Ok" THEN live + 1 ELSE live
               /\ epoch' = IF out.self # self THEN "used" ELSE epoch
        /\ UNCHANGED pages

\* dealloc's <<pos, size>>: the block allocated last, or a pointer that no
\* alloc returned (the page cursor).
DeallocArgs ==
    {<<page_pos, PAGE_SIZE>>}
        \cup (IF bytes = <<>> THEN {} ELSE {bytes[Len(bytes)]})

Dealloc ==
    \E arg \in DeallocArgs :
    /\ mode = "ready"
    /\ live > -MaxUnderflow
    /\ LET out == dealloc(self, arg[1], arg[2])
       IN  /\ Commit("dealloc", arg[1], arg[2], out)
           /\ live' = IF out.result.tag = "Unit" THEN live - 1 ELSE live
           /\ epoch' = IF out.result.tag = "Unit" /\ out.self.count = 0
                       THEN "reset" ELSE epoch
           /\ bytes' = IF out.result.tag = "Unit" /\ out.self.count = 0
                       THEN <<>> ELSE bytes
    /\ UNCHANGED pages

AllocPages ==
    \E req \in PageRequests :
        /\ mode = "ready"
        /\ Len(pages) < MaxPageAllocs
        /\ LET out == alloc_pages(self, req[1], req[2])
           IN  /\ Commit("alloc_pages", req[1], req[2], out)
               /\ pages' = IF out.result.tag = "Ok"
                           THEN Append(pages, <<out.result.val, req[1]>>)
                           ELSE pages
        /\ UNCHANGED <<bytes, live, epoch>>

DeallocPages ==
    \E pos \in {page_pos}, num_pages \in 0 .. 1 :
        /\ mode = "ready"
        /\ Commit("dealloc_pages", pos, num_pages, dealloc_pages(self, pos, num_pages))
        /\ UNCHANGED <<pages, bytes, live, epoch>>

Query ==
    \E q \in Queries :
        /\ mode = "ready"
        /\ Commit(q, 0, 0, query(self, q))
        /\ UNCHANGED <<pages, bytes, live, epoch>>

Next ==
    \/ InitCall
    \/ AddMemory
    \/ Alloc
    \/ Dealloc
    \/ AllocPages
    \/ DeallocPages
    \/ Query

Spec == Init /\ [][Next]_vars

\* ------------------------------------------------------ claim vocabulary
\* The least multiple of a that is >= v, and the greatest that is <= v, over
\* the integers.
MathAlignUp(v, a) == ((v + a - 1) \div a) * a
MathAlignDown(v, a) == (v \div a) * a

CursorOrder(s) ==
    s.start <= s.byte_pos /\ s.byte_pos <= s.page_pos /\ s.page_pos <= s.end

\* pages[i] = <<addr, num_pages>> is the range [addr, addr + num_pages * PAGE_SIZE).
PageRangesApart ==
    \A i, j \in 1 .. Len(pages) :
        i < j =>
            /\ pages[i][1] # pages[j][1]
            /\ \/ pages[i][1] + pages[i][2] * PAGE_SIZE <= pages[j][1]
               \/ pages[j][1] + pages[j][2] * PAGE_SIZE <= pages[i][1]

\* The ledger after init(PAGE_SIZE, 2 * PAGE_SIZE): the region [0x1000, 0x3000).
ExhaustionRegion ==
    [start |-> PAGE_SIZE, end |-> 3 * PAGE_SIZE, count |-> 0,
     byte_pos |-> PAGE_SIZE, page_pos |-> 3 * PAGE_SIZE]

\* ---------------------------------------------------------------- claims

\* C1: after init, whatever alloc, dealloc and alloc_pages calls follow
\* (failing ones included), start <= byte_pos <= page_pos <= end.
C1_CursorOrder == mode # "uninit" => CursorOrder(self)

\* C2: on the region [0x1000, 0x3000) with 0x1000-byte pages,
\* alloc_pages(2, 0x1000) succeeds and leaves page_pos = byte_pos = 0x1000,
\* and an alloc of size 1, align 1 in that state fails without committing.
C2_Exhaustion ==
    /\ (last.op = "alloc_pages" /\ last.pre = ExhaustionRegion
            /\ last.a1 = 2 /\ last.a2 = PAGE_SIZE)
        => (last.result.tag = "Ok" /\ page_pos = PAGE_SIZE /\ byte_pos = PAGE_SIZE)
    /\ (last.op = "alloc" /\ last.a1 = 1 /\ last.a2 = 1
            /\ last.pre.start = PAGE_SIZE /\ last.pre.end = 3 * PAGE_SIZE
            /\ last.pre.byte_pos = PAGE_SIZE /\ last.pre.page_pos = PAGE_SIZE)
        => (last.result.tag \in {"NoMemory", "AllocErrorAbort"} /\ self = last.pre)

\* C3: an alloc_pages request with a page-multiple align that asks for more
\* bytes than lie between the cursors returns NoMemory: no panic, no success.
C3_NoFitIsNoMemory ==
    (/\ last.op = "alloc_pages"
     /\ last.a2 % PAGE_SIZE = 0
     /\ last.a1 * PAGE_SIZE > last.pre.page_pos - last.pre.byte_pos)
        => last.result.tag = "NoMemory"

C5_PagesStrictlyDecrease ==
    (last.op = "alloc_pages" /\ last.result.tag = "Ok")
        => /\ page_pos < last.pre.page_pos
           /\ page_pos = MathAlignDown(last.pre.page_pos - last.a1 * PAGE_SIZE, PAGE_SIZE)
           /\ last.result.val = page_pos
           /\ PageRangesApart

\* C6: a dealloc made when count is 0 fails fast, leaving count and byte_pos
\* as they were, and a dealloc that returns lowers count by exactly one, so
\* count never wraps.
C6_DeallocUnderflowFailsFast ==
    /\ (last.op = "dealloc" /\ last.pre.count = 0)
        => (Fatal(last.result) /\ self = last.pre)
    /\ (last.op = "dealloc" /\ ~Fatal(last.result))
        => count = last.pre.count - 1

\* C7: alloc_pages (with a page-multiple align) returns NoMemory exactly when
\* align_down(page_pos - num_pages * PAGE_SIZE, PAGE_SIZE) <= byte_pos, and a
\* NoMemory leaves the ledger as it was and the allocator usable.
C7_NoMemoryExactly ==
    (last.op = "alloc_pages" /\ last.a2 % PAGE_SIZE = 0)
        => /\ last.result.tag = "NoMemory"
                <=> MathAlignDown(last.pre.page_pos - last.a1 * PAGE_SIZE, PAGE_SIZE)
                        <= last.pre.byte_pos
           /\ last.result.tag = "NoMemory" => (self = last.pre /\ mode = "ready")

\* C8: alloc(size, align) fails fatally, committing nothing, exactly when
\* align_up(byte_pos, align) + size > page_pos; otherwise it returns
\* align_up(byte_pos, align), sets byte_pos to that plus size and adds 1 to
\* count (a request ending exactly at page_pos included).
C8_AllocExactly ==
    last.op = "alloc"
        => LET a == MathAlignUp(last.pre.byte_pos, last.a2)
           IN  IF a + last.a1 > last.pre.page_pos
               THEN Fatal(last.result) /\ self = last.pre
               ELSE /\ last.result = Ok(a)
                    /\ byte_pos = a + last.a1
                    /\ count = last.pre.count + 1
                    /\ page_pos = last.pre.page_pos

\* C9: add_memory and dealloc_pages fail as unimplemented whatever their
\* arguments and the state, and leave the ledger as it was.
C9_Unimplemented ==
    last.op \in {"add_memory", "dealloc_pages"}
        => (last.result = Unimplemented /\ self = last.pre /\ mode = "halted")

\* C9's case: dealloc_pages was called on pages that alloc_pages had returned.
C9_Witness ==
    /\ last.op = "dealloc_pages"
    /\ Len(pages) >= 1
    /\ last.a1 = pages[Len(pages)][1]
    /\ last.a2 = 1
    /\ page_pos < end

\* C10: right after init(start, size), from any prior state: used_bytes() = 0,
\* used_pages() = 0, available_bytes() = total_bytes() = size, count = 0 and
\* start <= byte_pos <= page_pos <= end.
C10_AfterInit ==
    last.op = "init"
        => /\ last.result = Unit
           /\ used_bytes(self) = Ok(0)
           /\ used_pages(self) = Ok(0)
           /\ available_bytes(self) = Ok(last.a2)
           /\ total_bytes(self) = Ok(last.a2)
           /\ count = 0
           /\ start = last.a1
           /\ CursorOrder(self)

\* C10's case: init was called again on an instance with outstanding byte
\* and page allocations.
C10_Witness ==
    /\ last.op = "init"
    /\ last.pre.count > 0
    /\ last.pre.byte_pos > last.pre.start
    /\ last.pre.page_pos < last.pre.end
    /\ <<last.a1, last.a2>> # <<last.pre.start, last.pre.end - last.pre.start>>

\* bytes[i] = <<addr, size>> is the range [addr, addr + size).
ByteRangesApart ==
    \A i, j \in 1 .. Len(bytes) :
        (i < j /\ bytes[i][2] # 0 /\ bytes[j][2] # 0)
            => \/ bytes[i][1] + bytes[i][2] <= bytes[j][1]
               \/ bytes[j][1] + bytes[j][2] <= bytes[i][1]

ByteRangesInside ==
    \A i \in 1 .. Len(bytes) :
        start <= bytes[i][1] /\ bytes[i][1] + bytes[i][2] <= byte_pos

PageRangesInside ==
    \A j \in 1 .. Len(pages) :
        page_pos <= pages[j][1] /\ pages[j][1] + pages[j][2] * PAGE_SIZE <= end

BytesApartFromPages ==
    \A i \in 1 .. Len(bytes), j \in 1 .. Len(pages) :
        \/ bytes[i][1] + bytes[i][2] <= pages[j][1]
        \/ pages[j][1] + pages[j][2] * PAGE_SIZE <= bytes[i][1]

C12_PageCursorNeverRises ==
    last.op \in {"alloc", "dealloc", "alloc_pages"}
        => /\ page_pos <= last.pre.page_pos
           /\ used_pages(self).tag = "Ok"
           /\ used_pages(last.pre).val <= used_pages(self).val
           /\ last.op \in {"alloc", "dealloc"} => page_pos = last.pre.page_pos

\* C13: alloc_pages with an align that is no multiple of PAGE_SIZE fails its
\* assertion, whatever num_pages and the state, and leaves the ledger as it
\* was.
C13_MisalignedAlignIsFatal ==
    (last.op = "alloc_pages" /\ last.a2 % PAGE_SIZE # 0)
        => (last.result = PanicAssert /\ self = last.pre /\ mode = "halted")

\* C13's case: the request would have fit had its align been accepted.
C13_Witness ==
    /\ last.op = "alloc_pages"
    /\ last.a2 % PAGE_SIZE # 0
    /\ last.a1 >= 1
    /\ last.pre.byte_pos + last.a1 * PAGE_SIZE < last.pre.page_pos
    /\ last.pre.count > 0

\* C14: a dealloc that leaves count > 0 changes count only (so used_bytes()
\* and available_bytes() stay), and the ledger it leaves is the same for
\* every pointer and layout it could have been given.
C14_DeallocIgnoresArgs ==
    (last.op = "dealloc" /\ ~Fatal(last.result) /\ count > 0)
        => /\ [self EXCEPT !.count = last.pre.count] = last.pre
           /\ count # last.pre.count
           /\ used_bytes(self) = used_bytes(last.pre)
           /\ available_bytes(self) = available_bytes(last.pre)
           /\ \A arg \in DeallocArgs :
                  dealloc(last.pre, arg[1], arg[2]).self = self

\* C14's case: with two allocations outstanding, a dealloc was given a
\* pointer no alloc returned, while the block allocated last ends at
\* byte_pos.
C14_Witness ==
    /\ last.op = "dealloc"
    /\ last.result = Unit
    /\ count = 1
    /\ Len(bytes) = 2
    /\ last.a1 = page_pos
    /\ bytes[2][1] + bytes[2][2] = byte_pos
    /\ bytes[2][1] # last.a1

C16_ErrLeavesLedger ==
    (last.op = "alloc" /\ last.result.tag = "NoMemory") => self = last.pre

\* C17: the ranges alloc returned since the last bulk reset (or init) are
\* pairwise disjoint (non-zero sizes) and lie in [start, byte_pos); the
\* ranges alloc_pages returned lie in [page_pos, end); no byte range meets a
\* page range.
C17_RangesDisjoint ==
    mode # "uninit"
        => /\ ByteRangesApart
           /\ ByteRangesInside
           /\ PageRangesInside
           /\ BytesApartFromPages

\* C18: a query leaves the ledger as it was, and in every state after init
\* the six queries return numbers with
\* used_bytes + available_bytes + (end - page_pos) = total_bytes and
\* available_pages * PAGE_SIZE <= available_bytes; when start and size are
\* multiples of PAGE_SIZE, used_pages * PAGE_SIZE = end - page_pos and
\* used_bytes + available_bytes + used_pages * PAGE_SIZE = total_bytes.
C18_QueryIdentities ==
    /\ last.op \in Queries => self = last.pre
    /\ mode # "uninit"
        => LET tb == total_bytes(self)
               ub == used_bytes(self)
               ab == available_bytes(self)
               up == used_pages(self)
               ap == available_pages(self)
           IN  /\ \A q \in Queries : query(self, q).result.tag = "Ok"
               /\ ub.val + ab.val + (end - page_pos) = tb.val
               /\ ap.val * PAGE_SIZE <= ab.val
               /\ (start % PAGE_SIZE = 0 /\ (end - start) % PAGE_SIZE = 0)
                    => /\ up.val * PAGE_SIZE = end - page_pos
                       /\ ub.val + ab.val + up.val * PAGE_SIZE = tb.val

====
